---- MODULE Spec2Model ----
(***************************************************************************)
(* ThothNamer: a name-service blueprint (thoth_namer.py).  The contract    *)
(* state is the four scalar fields kept in the contract's key-value        *)
(* storage (domain, fee, total_fee, dev_address) and the names dictionary. *)
(* Every public method is one atomic call; a raise ends the call.          *)
(***************************************************************************)
EXTENDS Integers, Sequences, FiniteSets, TLC

VARIABLES
    storage,    \* the scalar fields that have been assigned: field name -> value
    names,      \* Dict[str, dict[str, Address]]
    last,       \* the last public call: method, ctx and arguments
    result,     \* how the last call ended: "OK" or the exception raised
    paid        \* the fee in effect at each successful create_name, in order

vars == <<storage, names, last, result, paid>>

----------------------------------------------------------------------------
(* Bounds of the model and the inputs the calls draw from.                  *)

MaxFee == 2
MaxAmount == 2

Addresses == {"addrA", "addrB"}

FeeInputs == (0 - 1) .. MaxFee

DomainInputs == {"", "htr", "nano"}

\* Names are sequences of characters.
NameInputs ==
    { <<"a", "b", "c">>,        \* valid
      <<"x", "-", "1">>,        \* valid, inner hyphen
      <<"a">>,                  \* too short
      <<"-", "a", "b">> }       \* leading hyphen

DEPOSIT == "DEPOSIT"
WITHDRAWAL == "WITHDRAWAL"
ActionTypes == {DEPOSIT, WITHDRAWAL}

\* Token uids: HTR is settings.HATHOR_TOKEN_UID, b00 is the literal b'00',
\* wrong_token is the uid the token test attaches.
HTR == "HTR"
b00 == "b00"
TokenUids == {HTR, b00, "wrong_token"}

NCActions == [type : ActionTypes, token_uid : TokenUids, amount : 1 .. MaxAmount]

\* ctx.actions: none, one, or two actions (of different tokens).
ActionInputs ==
    {<<>>} \cup { <<a>> : a \in NCActions }
           \cup { <<[type |-> DEPOSIT, token_uid |-> HTR, amount |-> MaxAmount],
                    [type |-> t, token_uid |-> "wrong_token", amount |-> MaxAmount]>> :
                  t \in ActionTypes }

Contexts == [address : Addresses, actions : ActionInputs]

----------------------------------------------------------------------------
(* The contract state as one value, and the outcome of a call.              *)

State == [storage |-> storage, names |-> names]

IsSet(s, field) == field \in DOMAIN s.storage

Put(s, field, value) ==
    [s EXCEPT !.storage =
        [f \in (DOMAIN s.storage) \cup {field} |->
            IF f = field THEN value ELSE s.storage[f]]]

Raise(s, exception) == [res |-> exception, st |-> s]

Return(s) == [res |-> "OK", st |-> s]

----------------------------------------------------------------------------
(* Views and private helpers.                                               *)

MinNameLen == 3
MaxNameLen == 32

Letters ==
    {"a", "b", "c", "d", "e", "f", "g", "h", "i", "j", "k", "l", "m",
     "n", "o", "p", "q", "r", "s", "t", "u", "v", "w", "x", "y", "z"}
Digits == {"0", "1", "2", "3", "4", "5", "6", "7", "8", "9"}
allowed_chars == Letters \cup Digits \cup {"-"}

\* validate_name looking for a hyphen at the start only.
validate_name_no_trailing_check(name) ==
    IF name = <<>> THEN FALSE
    ELSE IF Len(name) < MinNameLen \/ Len(name) > MaxNameLen THEN FALSE
    ELSE IF ~(\A i \in 1 .. Len(name) : name[i] \in allowed_chars) THEN FALSE
    ELSE IF name[1] = "-" THEN FALSE
    ELSE TRUE

validate_name(name) ==
    IF name = <<>> THEN FALSE
    ELSE IF Len(name) < MinNameLen \/ Len(name) > MaxNameLen THEN FALSE
    ELSE IF ~(\A i \in 1 .. Len(name) : name[i] \in allowed_chars) THEN FALSE
    ELSE IF name[1] = "-" \/ name[Len(name)] = "-" THEN FALSE
    ELSE TRUE

check_name_existence(s, name) == name \in DOMAIN s.names

\* The displayable (base58) form of an address: another value than the raw
\* address, and a different one for each address.
get_address_b58_from_bytes(address) == <<"b58", address>>

resolve_name(s, name) ==
    IF ~check_name_existence(s, name) THEN [res |-> "NameNotFound"]
    ELSE [res |-> "OK",
          value |-> get_address_b58_from_bytes(s.names[name].resolving_address)]

get_name_owner(s, name) ==
    IF name \notin DOMAIN s.names THEN [res |-> "NameNotFound"]
    ELSE [res |-> "OK", value |-> s.names[name].owner_address]

get_dev_address(s) ==
    IF ~IsSet(s, "dev_address") THEN [res |-> "AttributeError"]
    ELSE [res |-> "OK", value |-> get_address_b58_from_bytes(s.storage.dev_address)]

\* self.names[name] = record
SetName(s, name, record) ==
    [s EXCEPT !.names =
        [n \in (DOMAIN s.names) \cup {name} |->
            IF n = name THEN record ELSE s.names[n]]]

\* _get_action with the token check made before the withdrawal check.
_get_action_token_first(s, ctx) ==
    IF Len(ctx.actions) # 1 THEN [res |-> "TooManyActions"]
    ELSE LET action == ctx.actions[1] IN
         IF action.token_uid = b00 THEN [res |-> "InvalidToken"]
         ELSE IF ~IsSet(s, "dev_address") THEN [res |-> "AttributeError"]
         ELSE IF ctx.address # s.storage.dev_address /\ action.type = WITHDRAWAL
              THEN [res |-> "WithdrawalNotAllowed"]
         ELSE [res |-> "OK", action |-> action]

\* _get_action refusing only a call without any action.
_get_action_takes_first(s, ctx) ==
    IF Len(ctx.actions) = 0 THEN [res |-> "TooManyActions"]
    ELSE LET action == ctx.actions[1] IN
         IF ~IsSet(s, "dev_address") THEN [res |-> "AttributeError"]
         ELSE IF ctx.address # s.storage.dev_address /\ action.type = WITHDRAWAL
              THEN [res |-> "WithdrawalNotAllowed"]
         ELSE IF action.token_uid = b00 THEN [res |-> "InvalidToken"]
         ELSE [res |-> "OK", action |-> action]

\* The only action of the call, or the exception raised instead.
_get_action(s, ctx) ==
    IF Len(ctx.actions) # 1 THEN [res |-> "TooManyActions"]
    ELSE LET action == ctx.actions[1] IN
         IF ~IsSet(s, "dev_address") THEN [res |-> "AttributeError"]
         ELSE IF ctx.address # s.storage.dev_address /\ action.type = WITHDRAWAL
              THEN [res |-> "WithdrawalNotAllowed"]
         ELSE IF action.token_uid = b00 THEN [res |-> "InvalidToken"]
         ELSE [res |-> "OK", action |-> action]

\* _update_resolving_address updating the owner key as well.
_update_resolving_address_sets_owner(s, name, new_resolving_address) ==
    [s.names[name] EXCEPT !.resolving_address = new_resolving_address,
                          !.owner_address = new_resolving_address]

_update_resolving_address(s, name, new_resolving_address) ==
    [s.names[name] EXCEPT !.resolving_address = new_resolving_address]

_update_owner_address(s, name, new_owner_address) ==
    [s.names[name] EXCEPT !.owner_address = new_owner_address]

----------------------------------------------------------------------------
(* The public methods: each maps the state before the call to the outcome   *)
(* and the state after it.                                                  *)

\* initialize starting again from an empty registry.
initialize_clears_names(s, ctx, domain, fee) ==
    IF domain = "" THEN Raise(s, "InvalidDomain")
    ELSE IF fee <= 0 THEN Raise(s, "InvalidFee")
    ELSE Return([Put(Put(Put(Put(s, "domain", domain),
                                    "fee", fee),
                                    "total_fee", 0),
                                    "dev_address", ctx.address)
                 EXCEPT !.names = <<>>])

initialize(s, ctx, domain, fee) ==
    IF domain = "" THEN Raise(s, "InvalidDomain")
    ELSE IF fee <= 0 THEN Raise(s, "InvalidFee")
    ELSE Return(Put(Put(Put(Put(s, "domain", domain),
                                   "fee", fee),
                                   "total_fee", 0),
                                   "dev_address", ctx.address))

\* create_name without the name validation.
create_name_no_validation(s, ctx, name) ==
    IF check_name_existence(s, name) THEN Raise(s, "NameAlreadyExists")
    ELSE LET got == _get_action(s, ctx) IN
         IF got.res # "OK" THEN Raise(s, got.res)
         ELSE IF ~IsSet(s, "fee") THEN Raise(s, "AttributeError")
         ELSE IF got.action.amount < s.storage.fee
              THEN Raise(s, "InsufficientBalance")
         ELSE LET s1 == SetName(s, name, [owner_address |-> ctx.address,
                                          resolving_address |-> ctx.address])
              IN Return(Put(s1, "total_fee", s1.storage.total_fee + s1.storage.fee))

\* create_name resolving the new name to the developer instead of the caller.
create_name_resolves_to_dev(s, ctx, name) ==
    IF ~validate_name(name) THEN Raise(s, "InvalidNameFormat")
    ELSE IF check_name_existence(s, name) THEN Raise(s, "NameAlreadyExists")
    ELSE LET got == _get_action(s, ctx) IN
         IF got.res # "OK" THEN Raise(s, got.res)
         ELSE IF ~IsSet(s, "fee") THEN Raise(s, "AttributeError")
         ELSE IF got.action.amount < s.storage.fee
              THEN Raise(s, "InsufficientBalance")
         ELSE LET s1 == SetName(s, name, [owner_address |-> ctx.address,
                                          resolving_address |-> s.storage.dev_address])
              IN Return(Put(s1, "total_fee", s1.storage.total_fee + s1.storage.fee))

\* create_name storing the record before the payment is verified.
create_name_writes_first(s, ctx, name) ==
    IF ~validate_name(name) THEN Raise(s, "InvalidNameFormat")
    ELSE IF check_name_existence(s, name) THEN Raise(s, "NameAlreadyExists")
    ELSE LET s1 == SetName(s, name, [owner_address |-> ctx.address,
                                     resolving_address |-> ctx.address])
             got == _get_action(s, ctx)
         IN IF got.res # "OK" THEN Raise(s1, got.res)
            ELSE IF ~IsSet(s, "fee") THEN Raise(s1, "AttributeError")
            ELSE IF got.action.amount < s.storage.fee
                 THEN Raise(s1, "InsufficientBalance")
            ELSE Return(Put(s1, "total_fee", s1.storage.total_fee + s1.storage.fee))

\* create_name without the check that the name is free.
create_name_no_existence_check(s, ctx, name) ==
    IF ~validate_name(name) THEN Raise(s, "InvalidNameFormat")
    ELSE LET got == _get_action(s, ctx) IN
         IF got.res # "OK" THEN Raise(s, got.res)
         ELSE IF ~IsSet(s, "fee") THEN Raise(s, "AttributeError")
         ELSE IF got.action.amount < s.storage.fee
              THEN Raise(s, "InsufficientBalance")
         ELSE LET s1 == SetName(s, name, [owner_address |-> ctx.address,
                                          resolving_address |-> ctx.address])
              IN Return(Put(s1, "total_fee", s1.storage.total_fee + s1.storage.fee))

\* create_name refusing a payment of exactly the fee.
create_name_strict_payment(s, ctx, name) ==
    IF ~validate_name(name) THEN Raise(s, "InvalidNameFormat")
    ELSE IF check_name_existence(s, name) THEN Raise(s, "NameAlreadyExists")
    ELSE LET got == _get_action(s, ctx) IN
         IF got.res # "OK" THEN Raise(s, got.res)
         ELSE IF ~IsSet(s, "fee") THEN Raise(s, "AttributeError")
         ELSE IF got.action.amount <= s.storage.fee
              THEN Raise(s, "InsufficientBalance")
         ELSE LET s1 == SetName(s, name, [owner_address |-> ctx.address,
                                          resolving_address |-> ctx.address])
              IN Return(Put(s1, "total_fee", s1.storage.total_fee + s1.storage.fee))

create_name(s, ctx, name) ==
    IF ~validate_name(name) THEN Raise(s, "InvalidNameFormat")
    ELSE IF check_name_existence(s, name) THEN Raise(s, "NameAlreadyExists")
    ELSE LET got == _get_action(s, ctx) IN
         IF got.res # "OK" THEN Raise(s, got.res)
         ELSE IF ~IsSet(s, "fee") THEN Raise(s, "AttributeError")
         ELSE IF got.action.amount < s.storage.fee
              THEN Raise(s, "InsufficientBalance")
         ELSE LET s1 == SetName(s, name, [owner_address |-> ctx.address,
                                          resolving_address |-> ctx.address])
              IN IF ~IsSet(s1, "total_fee") THEN Raise(s1, "AttributeError")
                 ELSE Return(Put(s1, "total_fee",
                                 s1.storage.total_fee + s1.storage.fee))

\* change_fee without the check of the fee.
change_fee_no_validation(s, ctx, fee) ==
    IF ~IsSet(s, "dev_address") THEN Raise(s, "AttributeError")
    ELSE IF ctx.address # s.storage.dev_address THEN Raise(s, "NotAuthorized")
    ELSE Return(Put(s, "fee", fee))

\* change_fee validating the fee before the caller.
change_fee_checks_fee_first(s, ctx, fee) ==
    IF fee <= 0 THEN Raise(s, "InvalidFee")
    ELSE IF ~IsSet(s, "dev_address") THEN Raise(s, "AttributeError")
    ELSE IF ctx.address # s.storage.dev_address THEN Raise(s, "NotAuthorized")
    ELSE Return(Put(s, "fee", fee))

change_fee(s, ctx, fee) ==
    IF ~IsSet(s, "dev_address") THEN Raise(s, "AttributeError")
    ELSE IF ctx.address # s.storage.dev_address THEN Raise(s, "NotAuthorized")
    ELSE IF fee <= 0 THEN Raise(s, "InvalidFee")
    ELSE Return(Put(s, "fee", fee))

change_dev_address(s, ctx, new_dev_address) ==
    IF ~IsSet(s, "dev_address") THEN Raise(s, "AttributeError")
    ELSE IF ctx.address # s.storage.dev_address THEN Raise(s, "NotAuthorized")
    ELSE Return(Put(s, "dev_address", new_dev_address))

\* change_name_owner storing the caller's address instead of the new owner's.
change_name_owner_assigns_caller(s, ctx, name, new_owner_address) ==
    IF ~check_name_existence(s, name) THEN Raise(s, "NameNotFound")
    ELSE IF s.names[name].owner_address # ctx.address THEN Raise(s, "NotAuthorized")
    ELSE Return(SetName(s, name, _update_owner_address(s, name, ctx.address)))

\* change_name_owner letting the developer through as well as the owner.
change_name_owner_dev_allowed(s, ctx, name, new_owner_address) ==
    IF ~check_name_existence(s, name) THEN Raise(s, "NameNotFound")
    ELSE IF s.names[name].owner_address # ctx.address
            /\ s.storage.dev_address # ctx.address
         THEN Raise(s, "NotAuthorized")
    ELSE Return(SetName(s, name, _update_owner_address(s, name, new_owner_address)))

change_name_owner(s, ctx, name, new_owner_address) ==
    IF ~check_name_existence(s, name) THEN Raise(s, "NameNotFound")
    ELSE IF s.names[name].owner_address # ctx.address THEN Raise(s, "NotAuthorized")
    ELSE Return(SetName(s, name, _update_owner_address(s, name, new_owner_address)))

change_resolving_address(s, ctx, name, new_resolving_address) ==
    IF ~check_name_existence(s, name) THEN Raise(s, "NameNotFound")
    ELSE IF s.names[name].owner_address # ctx.address THEN Raise(s, "NotAuthorized")
    ELSE Return(SetName(s, name,
                        _update_resolving_address(s, name, new_resolving_address)))

----------------------------------------------------------------------------
(* The state machine: any caller may issue any public call at any time.     *)

\* The call's outcome becomes the next state.
Finish(method, ctx, out) ==
    /\ storage' = out.st.storage
    /\ names' = out.st.names
    /\ last' = [method |-> method, address |-> ctx.address]
    /\ result' = out.res
    /\ paid' = IF method = "create_name" /\ out.res = "OK"
               THEN Append(paid, storage.fee)
               ELSE paid

NoActions == {c \in Contexts : c.actions = <<>>}

Init ==
    /\ storage = <<>>
    /\ names = <<>>
    /\ last = [method |-> "deploy", address |-> "-"]
    /\ result = "OK"
    /\ paid = <<>>

InitializeCall(ctx, domain, fee) ==
    Finish("initialize", ctx, initialize(State, ctx, domain, fee))

CreateNameCall(ctx, name) ==
    Finish("create_name", ctx, create_name(State, ctx, name))

ChangeFeeCall(ctx, fee) ==
    Finish("change_fee", ctx, change_fee(State, ctx, fee))

ChangeDevAddressCall(ctx, new_dev_address) ==
    Finish("change_dev_address", ctx, change_dev_address(State, ctx, new_dev_address))

ChangeNameOwnerCall(ctx, name, new_owner_address) ==
    Finish("change_name_owner", ctx,
           change_name_owner(State, ctx, name, new_owner_address))

ChangeResolvingAddressCall(ctx, name, new_resolving_address) ==
    Finish("change_resolving_address", ctx,
           change_resolving_address(State, ctx, name, new_resolving_address))

Initialize ==
    \E ctx \in NoActions, domain \in DomainInputs, fee \in FeeInputs :
        InitializeCall(ctx, domain, fee)

CreateName ==
    \E ctx \in Contexts, name \in NameInputs : CreateNameCall(ctx, name)

ChangeFee ==
    \E ctx \in NoActions, fee \in FeeInputs : ChangeFeeCall(ctx, fee)

ChangeDevAddress ==
    \E ctx \in NoActions, new_dev_address \in Addresses :
        ChangeDevAddressCall(ctx, new_dev_address)

ChangeNameOwner ==
    \E ctx \in NoActions, name \in NameInputs, new_owner_address \in Addresses :
        ChangeNameOwnerCall(ctx, name, new_owner_address)

ChangeResolvingAddress ==
    \E ctx \in NoActions, name \in NameInputs, new_resolving_address \in Addresses :
        ChangeResolvingAddressCall(ctx, name, new_resolving_address)

Next ==
    \/ Initialize
    \/ CreateName
    \/ ChangeFee
    \/ ChangeDevAddress
    \/ ChangeNameOwner
    \/ ChangeResolvingAddress

Spec == Init /\ [][Next]_vars

----------------------------------------------------------------------------
(* The name validator on its own: one name is drawn, then validate_name or  *)
(* create_name is applied to it on a freshly initialized contract.          *)

MaxSampleLen == 3

SampleChars == {"a", "z", "0", "-", "A", "_"}

ShortSamples == UNION {[1 .. k -> SampleChars] : k \in 0 .. MaxSampleLen}

Fill(k) == [i \in 1 .. k |-> "a"]

\* Names around the upper length limit, with the sample at either end.
LongSamples ==
    {s \o Fill(len - Len(s)) :
        s \in ShortSamples, len \in (MaxNameLen - 1) .. (MaxNameLen + 1)}
    \cup
    {Fill(len - Len(s)) \o s :
        s \in ShortSamples, len \in (MaxNameLen - 1) .. (MaxNameLen + 1)}

NameSamples == ShortSamples \cup LongSamples

InitValidate ==
    /\ storage = initialize([storage |-> <<>>, names |-> <<>>],
                            [address |-> "addrA", actions |-> <<>>],
                            "htr", 1).st.storage
    /\ names = <<>>
    /\ \E n \in NameSamples :
          last = [method |-> "input", address |-> "-", name |-> n]
    /\ result = "pending"
    /\ paid = <<>>

ProbeValidateName ==
    /\ last.method = "input"
    /\ last' = [last EXCEPT !.method = "validate_name"]
    /\ result' = IF validate_name(last.name) THEN "True" ELSE "False"
    /\ UNCHANGED <<storage, names, paid>>

ProbeCreateName ==
    /\ last.method = "input"
    /\ \E a \in Addresses :
          LET ctx == [address |-> a,
                      actions |-> <<[type |-> DEPOSIT, token_uid |-> HTR,
                                     amount |-> MaxAmount]>>]
              out == create_name(State, ctx, last.name)
          IN /\ storage' = out.st.storage
             /\ names' = out.st.names
             /\ last' = [last EXCEPT !.method = "create_name", !.address = a]
             /\ result' = out.res
             /\ paid' = IF out.res = "OK" THEN Append(paid, storage.fee) ELSE paid

NextValidate ==
    \/ ProbeValidateName
    \/ ProbeCreateName

SpecValidate == InitValidate /\ [][NextValidate]_vars

TypeOK ==
    /\ DOMAIN storage \in {{}, {"domain", "fee", "total_fee", "dev_address"}}
    /\ \A n \in DOMAIN names : names[n] \in [owner_address : Addresses,
                                            resolving_address : Addresses]

----------------------------------------------------------------------------
(* Properties.                                                              *)

RECURSIVE SumSeq(_)
SumSeq(q) == IF q = <<>> THEN 0 ELSE Head(q) + SumSeq(Tail(q))

Initialized == IsSet(State, "dev_address")

\* Contexts carrying exactly one action.
OneAction == {c \in Contexts : Len(c.actions) = 1}

\* The names create_name would go on to charge for in the current state.
FreeValidNames == {n \in NameInputs : validate_name(n) /\ n \notin DOMAIN names}

\* C1: failure atomicity. Whatever public call a step is, if it ends in an
\* error then the scalar fields and the whole names mapping are the same
\* after the step as before it.
FailureAtomicity ==
    [][result' # "OK" => (storage' = storage /\ names' = names)]_vars

\* A call failed on a contract that already holds a registration.
C1Witness == result # "OK" /\ paid # <<>> /\ DOMAIN names # {}

\* C2: owner-only authorization. In every reachable state, for every
\* registered name n and every argument x, change_name_owner(n, x) and
\* change_resolving_address(n, x) fail NotAuthorized for a caller that is not
\* n's current owner_address, and succeed for the current owner.
OwnerOnly ==
    \A ctx \in NoActions, n \in DOMAIN names, x \in Addresses :
        LET owner == change_name_owner(State, ctx, n, x)
            resolving == change_resolving_address(State, ctx, n, x)
        IN IF ctx.address # names[n].owner_address
           THEN owner.res = "NotAuthorized" /\ resolving.res = "NotAuthorized"
           ELSE owner.res = "OK" /\ resolving.res = "OK"

\* The administrator, who owns no name, was refused an ownership transfer.
C2Witness ==
    /\ last.method = "change_name_owner"
    /\ result = "NotAuthorized"
    /\ last.address = storage.dev_address
    /\ DOMAIN names # {}
    /\ \A n \in DOMAIN names : names[n].owner_address # last.address

\* C3: administrator-only authorization. Once dev_address is set, change_fee
\* (with any fee, positive or not) and change_dev_address fail NotAuthorized
\* for a caller that is not the current dev_address; for the current
\* dev_address change_dev_address(new) succeeds and makes new the
\* dev_address, and change_fee fails only on a non-positive fee.
AdminOnly ==
    Initialized =>
        \A ctx \in NoActions, fee \in FeeInputs, new \in Addresses :
            LET cf == change_fee(State, ctx, fee)
                cd == change_dev_address(State, ctx, new)
            IN IF ctx.address # storage.dev_address
               THEN cf.res = "NotAuthorized" /\ cd.res = "NotAuthorized"
               ELSE /\ cd.res = "OK"
                    /\ cd.st.storage.dev_address = new
                    /\ cf.res = IF fee > 0 THEN "OK" ELSE "InvalidFee"

\* The administrator has just handed the role to another address.
C3Witness ==
    /\ last.method = "change_dev_address"
    /\ result = "OK"
    /\ last.address # storage.dev_address

\* C4: exclusive administrator rights. After the first successful
\* initialize, fee changes only in a successful change_fee step made by the
\* dev_address of that moment, and dev_address changes only in a successful
\* change_dev_address step made by the dev_address of that moment.
ExclusiveAdminRights ==
    [][Initialized =>
        /\ storage'.fee # storage.fee =>
              /\ last'.method = "change_fee"
              /\ result' = "OK"
              /\ last'.address = storage.dev_address
        /\ storage'.dev_address # storage.dev_address =>
              /\ last'.method = "change_dev_address"
              /\ result' = "OK"
              /\ last'.address = storage.dev_address]_vars

\* C5: duplicate registration. For every registered name n, create_name(n)
\* by any caller with any attached actions fails NameAlreadyExists and
\* leaves the state (records and total_fee included) as it was.
DuplicateRejected ==
    \A ctx \in Contexts, n \in DOMAIN names :
        create_name(State, ctx, n) = Raise(State, "NameAlreadyExists")

\* A second registration of a name was refused to someone who is not its owner.
C5Witness ==
    /\ last.method = "create_name"
    /\ result = "NameAlreadyExists"
    /\ \E n \in DOMAIN names : names[n].owner_address # last.address

\* C6: fee accounting. In every reachable state total_fee is the sum of the
\* fees in effect at the successful create_name calls so far; so after k
\* registrations that all ran at fee F, total_fee = k * F.
FeeAccounting ==
    IsSet(State, "total_fee") =>
        /\ storage.total_fee = SumSeq(paid)
        /\ \A F \in 1 .. MaxFee :
              (\A i \in 1 .. Len(paid) : paid[i] = F) =>
                  storage.total_fee = Len(paid) * F

\* C7: total_fee never decreases in a step taken after the first successful
\* initialize, further initialize calls included.
TotalFeeMonotone ==
    [][IsSet(State, "total_fee") =>
          storage'.total_fee >= storage.total_fee]_vars

\* C8: underpayment. For a free valid name and a single admitted action,
\* create_name fails InsufficientBalance, changing nothing, exactly when the
\* action's amount is below the current fee; otherwise it succeeds.
UnderpaymentRejected ==
    \A ctx \in OneAction, n \in FreeValidNames :
        _get_action(State, ctx).res = "OK" =>
            LET out == create_name(State, ctx, n) IN
            IF ctx.actions[1].amount < storage.fee
            THEN out = Raise(State, "InsufficientBalance")
            ELSE out.res = "OK"

\* A registration was refused for paying less than the fee.
C8Witness ==
    /\ last.method = "create_name"
    /\ result = "InsufficientBalance"
    /\ storage.fee > 1

\* C9: wrong-token payment. create_name of a free valid name with a single
\* deposit of at least the fee in a token other than HTR fails InvalidToken
\* and changes nothing.
WrongTokenRejected ==
    [][\A ctx \in OneAction, n \in FreeValidNames :
          LET action == ctx.actions[1] IN
          (/\ Initialized
           /\ action.type = DEPOSIT
           /\ action.amount >= storage.fee
           /\ action.token_uid # HTR
           /\ CreateNameCall(ctx, n)) =>
              (result' = "InvalidToken" /\ names' = names /\ storage' = storage)]_vars

\* C10 as stated: create_name (of any name) with a single withdrawal by a
\* caller other than the current dev_address fails WithdrawalNotAllowed and
\* registers nothing.
WithdrawalGatingAnyName ==
    [][\A ctx \in OneAction, n \in NameInputs :
          (/\ Initialized
           /\ ctx.actions[1].type = WITHDRAWAL
           /\ ctx.address # storage.dev_address
           /\ CreateNameCall(ctx, n)) =>
              (result' = "WithdrawalNotAllowed" /\ names' = names)]_vars

\* C10, amended: for a free valid name, create_name with a single withdrawal
\* of any amount and token by a caller other than the current dev_address
\* fails WithdrawalNotAllowed and changes nothing.
WithdrawalGating ==
    Initialized =>
        \A ctx \in OneAction, n \in FreeValidNames :
            (ctx.actions[1].type = WITHDRAWAL
             /\ ctx.address # storage.dev_address) =>
                create_name(State, ctx, n) = Raise(State, "WithdrawalNotAllowed")

\* A withdrawal by someone other than the developer was refused.
C10Witness ==
    /\ last.method = "create_name"
    /\ result = "WithdrawalNotAllowed"
    /\ last.address # storage.dev_address

\* C11: exactly one attached action. In every reachable state, create_name
\* of a free valid name fails TooManyActions, changing nothing, whenever the
\* call carries zero actions or two or more, whatever the actions are.
ExactlyOneAction ==
    \A ctx \in Contexts, n \in FreeValidNames :
        Len(ctx.actions) # 1 =>
            create_name(State, ctx, n) = Raise(State, "TooManyActions")

\* A registration was refused for its number of actions while a name was free.
C11Witness ==
    /\ last.method = "create_name"
    /\ result = "TooManyActions"
    /\ Initialized
    /\ FreeValidNames # {}

\* The characters [a-z0-9-] of the stated rule.
RuleChars ==
    {"a", "b", "c", "d", "e", "f", "g", "h", "i", "j", "k", "l", "m", "n", "o",
     "p", "q", "r", "s", "t", "u", "v", "w", "x", "y", "z", "0", "1", "2", "3",
     "4", "5", "6", "7", "8", "9", "-"}

\* The stated rule: 3 <= len(n) <= 32, every character in [a-z0-9-], and
\* neither the first nor the last character a hyphen.
NameRule(n) ==
    /\ 3 <= Len(n)
    /\ Len(n) <= 32
    /\ \A i \in 1 .. Len(n) : n[i] \in RuleChars
    /\ n[1] # "-"
    /\ n[Len(n)] # "-"

\* C12: validate_name is exactly the stated rule. For every name n,
\* validate_name(n) returns true iff n satisfies the rule, and create_name
\* fails InvalidNameFormat, registering nothing, for every n that does not.
ValidateNameExact ==
    /\ last.method = "validate_name" =>
          (result = IF NameRule(last.name) THEN "True" ELSE "False")
    /\ (last.method = "create_name" /\ ~NameRule(last.name)) =>
          (result = "InvalidNameFormat" /\ names = <<>>)

\* A name of the greatest allowed length, with a hyphen inside, was accepted.
C12Witness ==
    /\ last.method = "validate_name"
    /\ result = "True"
    /\ Len(last.name) = MaxNameLen
    /\ \E i \in 1 .. Len(last.name) : last.name[i] = "-"

\* C13: every key of names is well-formed. In every reachable state every
\* name for which check_name_existence is true satisfies validate_name.
KeysWellFormed ==
    \A n \in NameInputs : check_name_existence(State, n) => validate_name(n)

\* Both valid names are registered, after attempts with the malformed ones.
C13Witness ==
    /\ Cardinality(DOMAIN names) = 2
    /\ last.method = "create_name"
    /\ result = "InvalidNameFormat"

\* C14: Registered is absorbing. In every step, whatever the call (further
\* initialize calls included), every name present before the step is present
\* after it; and a step that is a successful create_name adds exactly one
\* name that was not present.
RegisteredAbsorbing ==
    [][/\ DOMAIN names \subseteq DOMAIN names'
       /\ (last'.method = "create_name" /\ result' = "OK") =>
             Cardinality(DOMAIN names') = Cardinality(DOMAIN names) + 1]_vars

\* initialize succeeded again on a contract that holds registrations.
C14Witness ==
    /\ last.method = "initialize"
    /\ result = "OK"
    /\ DOMAIN names # {}

\* C15: registration creates the record for the caller. In every reachable
\* state, create_name(n) by caller A for a free valid name with one admitted
\* action of at least the fee succeeds; afterwards check_name_existence(n)
\* is true, get_name_owner(n) is A, resolve_name(n) is A's encoded form, and
\* the records of all other names are as before.
RegistrationCreatesRecord ==
    \A ctx \in OneAction, n \in FreeValidNames :
        (/\ _get_action(State, ctx).res = "OK"
         /\ ctx.actions[1].amount >= storage.fee) =>
            LET out == create_name(State, ctx, n) IN
            /\ out.res = "OK"
            /\ check_name_existence(out.st, n)
            /\ out.st.names[n] = [owner_address |-> ctx.address,
                                  resolving_address |-> ctx.address]
            /\ get_name_owner(out.st, n) = [res |-> "OK", value |-> ctx.address]
            /\ resolve_name(out.st, n) =
                  [res |-> "OK", value |-> get_address_b58_from_bytes(ctx.address)]
            /\ DOMAIN out.st.names = DOMAIN names \cup {n}
            /\ \A m \in DOMAIN names : out.st.names[m] = names[m]

\* A second name was registered by a caller who is neither the developer nor
\* the owner of the first name.
C15Witness ==
    /\ last.method = "create_name"
    /\ result = "OK"
    /\ last.address # storage.dev_address
    /\ \E n, m \in DOMAIN names :
          /\ names[n] = [owner_address |-> last.address,
                         resolving_address |-> last.address]
          /\ names[m].owner_address # last.address

\* C16: ownership transfer assigns the supplied address. In every reachable
\* state, change_name_owner(n, new_owner_address) by n's current owner
\* succeeds and sets n's owner_address to new_owner_address (not to the
\* caller), so that get_name_owner(n) returns it, and n's resolving_address
\* is as before.
TransferAssignsSupplied ==
    \A ctx \in NoActions, n \in DOMAIN names, x \in Addresses :
        ctx.address = names[n].owner_address =>
            LET out == change_name_owner(State, ctx, n, x) IN
            /\ out.res = "OK"
            /\ out.st.names[n].owner_address = x
            /\ get_name_owner(out.st, n) = [res |-> "OK", value |-> x]
            /\ out.st.names[n].resolving_address = names[n].resolving_address

\* A name was transferred to another address and still resolves to the
\* previous owner.
C16Witness ==
    /\ last.method = "change_name_owner"
    /\ result = "OK"
    /\ \E n \in DOMAIN names :
          /\ names[n].owner_address # last.address
          /\ names[n].resolving_address = last.address

\* C17: initialization validity persists. initialize fails InvalidDomain on
\* an empty domain and (the domain being non-empty) InvalidFee on a fee <= 0,
\* and in every state reached after a successful initialize domain is
\* non-empty and fee is strictly positive.
InitializationValid ==
    /\ \A ctx \in NoActions, fee \in FeeInputs, domain \in DomainInputs :
          LET out == initialize(State, ctx, domain, fee) IN
          /\ domain = "" => out = Raise(State, "InvalidDomain")
          /\ (domain # "" /\ fee <= 0) => out = Raise(State, "InvalidFee")
    /\ IsSet(State, "domain") => (storage.domain # "" /\ storage.fee > 0)

\* The administrator's attempt to set a non-positive fee was refused.
C17Witness ==
    /\ last.method = "change_fee"
    /\ result = "InvalidFee"
    /\ storage.fee > 0
    /\ storage.domain # ""

\* C18: domain is write-once. After the first successful initialize, no
\* step (a further initialize included) changes domain.
DomainWriteOnce ==
    [][IsSet(State, "domain") => storage'.domain = storage.domain]_vars

\* The names whose record a step changes.
Changed == {m \in DOMAIN names : m \notin DOMAIN names' \/ names'[m] # names[m]}

\* C19: frame of record updates. In every step: an existing record changes
\* only if the step is a successful change_name_owner or
\* change_resolving_address made by that record's current owner; such a
\* call changes at most the one record it names and none of domain, fee,
\* total_fee, dev_address; change_resolving_address(n, x) sets n's
\* resolving_address to x and leaves every owner_address; initialize,
\* create_name, change_fee and change_dev_address alter no existing record.
RecordFrame ==
    [][/\ names' # names =>
             /\ \A m \in Changed :
                   /\ last'.method \in {"change_name_owner",
                                        "change_resolving_address"}
                   /\ result' = "OK"
                   /\ last'.address = names[m].owner_address
             /\ last'.method \in {"change_name_owner", "change_resolving_address"} =>
                   (DOMAIN names' = DOMAIN names /\ Cardinality(Changed) <= 1)
       /\ last'.method \in {"change_name_owner", "change_resolving_address"} =>
             storage' = storage
       /\ (last'.method = "change_resolving_address" /\ result' = "OK") =>
             /\ \A m \in DOMAIN names :
                   names'[m].owner_address = names[m].owner_address
             /\ \A ctx \in NoActions, n \in NameInputs, x \in Addresses :
                   ChangeResolvingAddressCall(ctx, n, x) =>
                       /\ names'[n].resolving_address = x
                       /\ Changed \subseteq {n}]_vars

\* An owner pointed a name to another address while a second name exists.
C19Witness ==
    /\ last.method = "change_resolving_address"
    /\ result = "OK"
    /\ Cardinality(DOMAIN names) = 2
    /\ \E n \in DOMAIN names :
          /\ names[n].owner_address = last.address
          /\ names[n].resolving_address # last.address

\* C20: every registration is paid by a deposit. A step that adds a name is
\* a create_name call whose single attached action is a deposit of at least
\* the current fee; no caller, the administrator included, registers a name
\* in a call whose action is a withdrawal.
RegistrationPaidByDeposit ==
    [][DOMAIN names' # DOMAIN names =>
          /\ last'.method = "create_name"
          /\ \A ctx \in Contexts, n \in NameInputs :
                CreateNameCall(ctx, n) =>
                    /\ Len(ctx.actions) = 1
                    /\ ctx.actions[1].type = DEPOSIT
                    /\ ctx.actions[1].amount >= storage.fee]_vars

====
